---------------------------- MODULE Spec2Model ----------------------------
(*
  A model of the Figma/locize plug-in core (src/unnamed/part_000, with its
  older snapshot src/code.ts): key generation for text nodes, application of
  keys and translations to the document, restoring of names, and the
  persisted selection map.

  Strings are sequences of one-character tokens, so that slicing, searching,
  splitting and slug normalisation are computed as the code computes them.
  The token "e'" stands for the letter e with an acute accent, "E'" for its
  upper-case form and "'" for the combining acute accent that Unicode
  normalisation (NFD) splits off.
*)
EXTENDS Integers, Sequences, FiniteSets, TLC

VARIABLES
    nodes,      \* text node id -> [name, characters, key, orig]: display name,
                \* text, plug-in data locize:key and locize:origName
    selection,  \* figma.currentPage.selection, as a set of node ids
    store,      \* clientStorage value under locize:selected: id -> BOOLEAN
    req,        \* the request (message or event) handled by the last step
    posted,     \* what the last handler sent: ui.postMessage and notify calls
    writes,     \* number of clientStorage.setAsync calls of the last handler
    pc,         \* position of an apply-language run
    targets,    \* apply-language: the keyed text nodes collected at its start
    fontReqs,   \* apply-language: loadFontAsync calls issued by ensureFonts
    pending,    \* apply-language: font loads issued and not yet completed
    loaded,     \* fonts the host has loaded in this plug-in session
    fontName,   \* text node id -> a font, or the value mixed
    procs,      \* interleaved handlers: id -> [kind, pc, arg, map, ver]
    version,    \* number of completed writes of the persisted selection map
    inflight    \* handlers whose setAsync has been issued and not completed

vars == <<nodes, selection, store, req, posted, writes, pc, targets, fontReqs,
          pending, loaded, fontName, procs, version, inflight>>

-----------------------------------------------------------------------------
(* Strings *)

UpperCase == <<"A","B","C","D","E","F","G","H","I","J","K","L","M",
               "N","O","P","Q","R","S","T","U","V","W","X","Y","Z","E'">>
LowerCase == <<"a","b","c","d","e","f","g","h","i","j","k","l","m",
               "n","o","p","q","r","s","t","u","v","w","x","y","z","e'">>
AsciiLower == {LowerCase[i] : i \in 1..26}
DigitChars == <<"0","1","2","3","4","5","6","7","8","9">>
SpaceChars == {" ", "\t", "\n"}

Range(s) == {s[i] : i \in 1..Len(s)}

\* String.prototype.toLowerCase, per character
ToLowerChar(c) ==
    IF \E i \in 1..Len(UpperCase) : UpperCase[i] = c
    THEN LowerCase[CHOOSE i \in 1..Len(UpperCase) : UpperCase[i] = c]
    ELSE c

ToLowerCase(s) == [i \in 1..Len(s) |-> ToLowerChar(s[i])]

\* String.prototype.normalize('NFD'): a precomposed letter becomes its base
\* letter followed by the combining mark
RECURSIVE NormalizeNFD(_)
NormalizeNFD(s) ==
    IF s = <<>> THEN <<>>
    ELSE (IF Head(s) = "e'" THEN <<"e", "'">>
          ELSE IF Head(s) = "E'" THEN <<"E", "'">>
          ELSE <<Head(s)>>) \o NormalizeNFD(Tail(s))

\* the character class [a-z0-9\s-_] of slugify's first replace: with the class
\* escape \s on its left the hyphen is a literal hyphen, not a range
SlugKept(c) == c \in AsciiLower \cup Range(DigitChars) \cup SpaceChars \cup {"-", "_"}

\* String.prototype.trim
RECURSIVE TrimStart(_)
TrimStart(s) ==
    IF s # <<>> /\ Head(s) \in SpaceChars THEN TrimStart(Tail(s)) ELSE s

RECURSIVE TrimEnd(_)
TrimEnd(s) ==
    IF s # <<>> /\ s[Len(s)] \in SpaceChars
    THEN TrimEnd(SubSeq(s, 1, Len(s) - 1)) ELSE s

Trim(s) == TrimEnd(TrimStart(s))

\* s.replace(/C+/g, rep) for a character class C: every maximal run of
\* characters of C becomes the single character rep
ReplaceRuns(s, C, rep) ==
    LET F[i \in 0..Len(s)] ==
            IF i = 0 THEN <<>>
            ELSE IF s[i] \in C
                 THEN (IF i > 1 /\ s[i-1] \in C THEN F[i-1]
                       ELSE Append(F[i-1], rep))
                 ELSE Append(F[i-1], s[i])
    IN  F[Len(s)]

\* a variant that strips the leading underscore only
StripLeadingUnderscore(s) == IF s # <<>> /\ Head(s) = "_" THEN Tail(s) ELSE s

\* s.replace(/^_|_$/g, '')
StripEdgeUnderscores(s) ==
    LET a == IF s # <<>> /\ Head(s) = "_" THEN Tail(s) ELSE s
    IN  IF a # <<>> /\ a[Len(a)] = "_" THEN SubSeq(a, 1, Len(a) - 1) ELSE a

slugify(str) ==
    StripEdgeUnderscores(
      ReplaceRuns(
        ReplaceRuns(
          Trim(SelectSeq(NormalizeNFD(ToLowerCase(str)), SlugKept)),
          SpaceChars, "_"),
        {"_"}, "_"))

\* String.prototype.indexOf for a one-character needle, 0-based, -1 if absent
IndexOf(s, c) ==
    IF \E i \in 1..Len(s) : s[i] = c
    THEN (CHOOSE i \in 1..Len(s) : s[i] = c /\ \A j \in 1..(i-1) : s[j] # c) - 1
    ELSE -1

\* s.slice(from) and s.slice(0, n) for 0 <= from, n
SliceFrom(s, from) == SubSeq(s, from + 1, Len(s))
SliceTo(s, n) == SubSeq(s, 1, IF n < Len(s) THEN n ELSE Len(s))

\* s.startsWith(p)
StartsWith(s, p) == Len(p) <= Len(s) /\ SubSeq(s, 1, Len(p)) = p

\* s.split('.').slice(-1)[0]: what follows the last dot, the whole string if
\* there is no dot
LastSegment(s) ==
    IF \E i \in 1..Len(s) : s[i] = "."
    THEN LET last == CHOOSE i \in 1..Len(s) :
                        s[i] = "." /\ \A j \in (i+1)..Len(s) : s[j] # "."
         IN  SubSeq(s, last + 1, Len(s))
    ELSE s

\* s.replace(p, '') for a string pattern p: the first occurrence of p is removed
ReplaceFirst(s, p) ==
    LET At(i) == i + Len(p) - 1 <= Len(s) /\ SubSeq(s, i, i + Len(p) - 1) = p
    IN  IF \E i \in 1..(Len(s) + 1) : At(i)
        THEN LET k == CHOOSE i \in 1..(Len(s) + 1) :
                         At(i) /\ \A j \in 1..(i-1) : ~At(j)
             IN  SubSeq(s, 1, k - 1) \o SubSeq(s, k + Len(p), Len(s))
        ELSE s

\* the decimal digits of a natural number, as a template literal prints it
RECURSIVE NatToStr(_)
NatToStr(n) ==
    IF n < 10 THEN <<DigitChars[n + 1]>>
    ELSE NatToStr(n \div 10) \o <<DigitChars[(n % 10) + 1]>>

\* parts.join('_')
RECURSIVE JoinUnderscore(_)
JoinUnderscore(parts) ==
    IF parts = <<>> THEN <<>>
    ELSE IF Len(parts) = 1 THEN parts[1]
    ELSE parts[1] \o <<"_">> \o JoinUnderscore(Tail(parts))

\* arr.slice(-n) for n > 0
LastN(arr, n) ==
    IF Len(arr) <= n THEN arr ELSE SubSeq(arr, Len(arr) - n + 1, Len(arr))

\* UTF-16 code unit order of the characters used, for Array.prototype.sort
CodeOrder == <<"\t", "\n", " ", "!", "-", ".">> \o DigitChars
             \o SubSeq(UpperCase, 1, 26) \o <<"_">> \o SubSeq(LowerCase, 1, 26)
             \o <<"E'", "e'", "'">>
CharCode(c) == CHOOSE i \in 1..Len(CodeOrder) : CodeOrder[i] = c

RECURSIVE StrLess(_, _)
StrLess(a, b) ==
    IF b = <<>> THEN FALSE
    ELSE IF a = <<>> THEN TRUE
    ELSE IF Head(a) = Head(b) THEN StrLess(Tail(a), Tail(b))
    ELSE CharCode(Head(a)) < CharCode(Head(b))

\* Array.from(set).sort()
SortStrings(S) ==
    CHOOSE q \in [1..Cardinality(S) -> S] :
        /\ Range(q) = S
        /\ \A i \in 1..(Len(q) - 1) : StrLess(q[i], q[i+1])

Orderings(S) == {q \in [1..Cardinality(S) -> S] : Range(q) = S}

-----------------------------------------------------------------------------
(* String constants of the code and of the document *)

PLUGIN_DEFAULT_NS == <<"c","o","m","m","o","n">>   \* msg.namespace || 'common'
FALLBACK_TOKEN == <<"t","e","x","t">>             \* if (!candidate) candidate = 'text'
PLACEHOLDER_PREFIX == <<"t","e","x","t">>         \* /^text/i
SLICE_LEN == 30                                   \* node.characters.slice(0, 30)
PATH_TAIL == 3                                    \* buildHierarchyPath(node).slice(-3)

sUi == <<"u","i">>
sTitle == <<"T","i","t","l","e">>
sCard == <<"C","a","r","d">>
sText1 == <<"T","e","x","t"," ","1">>
sHi == <<"H","i","!">>
sOld == <<"O","l","d">>
sGreeting == <<"g","r","e","e","t","i","n","g">>
sHallo == <<"H","a","l","l","o">>
sSalut == <<"S","a","l","u","t">>

-----------------------------------------------------------------------------
(* The document: one page holding the frame f1 "Card" with the text nodes t1
   and t2, both named "Title", and the frame f2 without children. *)

TextIds == {"t1", "t2"}
FrameIds == {"f1", "f2"}
SceneIds == TextIds \cup FrameIds
PageChildren == <<"f1", "f2">>
Children(n) == IF n = "f1" THEN <<"t1", "t2">> ELSE <<>>
Parent(n) == IF n \in {"t1", "t2"} THEN "f1" ELSE "page"
FrameName(n) == sCard

RECURSIVE Ancestors(_)
Ancestors(n) ==
    IF Parent(n) = "page" THEN {} ELSE {Parent(n)} \cup Ancestors(Parent(n))

\* the selections the user makes: no node together with one of its ancestors,
\* the empty frame only alone
Selections ==
    {S \in SUBSET SceneIds :
        /\ \A n \in S : Ancestors(n) \cap S = {}
        /\ "f2" \in S => S = {"f2"}}

InitialName(n) == sTitle
InitialText(n) == sHi

RECURSIVE collectTextNodes(_)
collectTextNodes(ns) ==
    IF ns = <<>> THEN <<>>
    ELSE (IF Head(ns) \in TextIds THEN <<Head(ns)>>
          ELSE collectTextNodes(Children(Head(ns))))
         \o collectTextNodes(Tail(ns))

RECURSIVE buildHierarchyPath(_, _)
buildHierarchyPath(n, doc) ==
    IF n = "page" THEN <<>>
    ELSE buildHierarchyPath(Parent(n), doc)
         \o <<IF n \in TextIds THEN doc[n].name ELSE FrameName(n)>>

\* the working set: the selection in an order the host chooses, or the page's
\* children when nothing is selected
SourceNodes(sel, order) == IF sel # {} THEN order ELSE PageChildren

-----------------------------------------------------------------------------
(* Key Assignment Engine *)

\* a variant that splits the key at its last dot
SplitKeyAtLastDot(key) ==
    [ns    |-> IF IndexOf(key, ".") > -1
               THEN SliceTo(key, Len(key) - Len(LastSegment(key)) - 1) ELSE <<>>,
     local |-> LastSegment(key)]

\* key -> [ns, local]: the split at the first dot done in generateKeys and in
\* the get-assigned and restore-names handlers
SplitKey(key) ==
    LET dotIndex == IndexOf(key, ".")
    IN  [ns    |-> IF dotIndex > -1 THEN SliceTo(key, dotIndex) ELSE <<>>,
         local |-> IF dotIndex > -1 THEN SliceFrom(key, dotIndex + 1) ELSE key]

\* the base name of an element without a stored key
BaseName(node) ==
    IF node.name # <<>>
       /\ ~StartsWith(ToLowerCase(node.name), PLACEHOLDER_PREFIX)
    THEN node.name
    ELSE SliceTo(node.characters, SLICE_LEN)

\* the normalised candidate of an element without a stored key, from its
\* hierarchy path
CandidateOf(path, node) ==
    LET pathParts == LastN(path, PATH_TAIL)
        raw == JoinUnderscore(Append(pathParts, BaseName(node)))
        c == slugify(raw)
    IN  IF c = <<>> THEN FALLBACK_TOKEN ELSE c

Candidate(n, doc) == CandidateOf(buildHierarchyPath(n, doc), doc[n])

\* a variant that tries the suffix _2 and no other
FirstUnusedTriesOnce(candidate, used, i, finalKey) ==
    IF finalKey \in used THEN candidate \o <<"_">> \o NatToStr(i + 1) ELSE finalKey

\* let i = 1; while (used.has(finalKey)) { i += 1; finalKey = candidate_i }
RECURSIVE FirstUnused(_, _, _, _)
FirstUnused(candidate, used, i, finalKey) ==
    IF finalKey \in used
    THEN FirstUnused(candidate, used, i + 1,
                     candidate \o <<"_">> \o NatToStr(i + 1))
    ELSE finalKey

\* what an element with a stored key adds to the used set
UsedOfExisting(key) == LastSegment(key)

ScanItem(n, doc, key, existing) ==
    [nodeId       |-> n,
     name         |-> doc[n].name,
     originalName |-> IF doc[n].orig # <<>> THEN doc[n].orig ELSE doc[n].name,
     text         |-> doc[n].characters,
     key          |-> key,
     namespace    |-> SplitKey(key).ns,
     localKey     |-> SplitKey(key).local,
     existing     |-> existing]

\* a variant that keeps a stored key only if it lies in the requested namespace
GenerateStepOwnNamespace(acc, n, namespace, doc) ==
    IF doc[n].key # <<>> /\ StartsWith(doc[n].key, namespace \o <<".">>)
    THEN [used  |-> acc.used \cup {UsedOfExisting(doc[n].key)},
          items |-> Append(acc.items, ScanItem(n, doc, doc[n].key, TRUE))]
    ELSE LET c == Candidate(n, doc)
             finalKey == FirstUnused(c, acc.used, 1, c)
         IN  [used  |-> acc.used \cup {finalKey},
              items |-> Append(acc.items,
                          ScanItem(n, doc, namespace \o <<".">> \o finalKey, FALSE))]

\* one iteration of the loop of generateKeys: acc = [used, items]
GenerateStep(acc, n, namespace, doc) ==
    IF doc[n].key # <<>>
    THEN [used  |-> acc.used \cup {UsedOfExisting(doc[n].key)},
          items |-> Append(acc.items, ScanItem(n, doc, doc[n].key, TRUE))]
    ELSE LET c == Candidate(n, doc)
             finalKey == FirstUnused(c, acc.used, 1, c)
         IN  [used  |-> acc.used \cup {finalKey},
              items |-> Append(acc.items,
                          ScanItem(n, doc, namespace \o <<".">> \o finalKey, FALSE))]

generateKeys(textNodes, namespace, doc) ==
    LET G[i \in 0..Len(textNodes)] ==
            IF i = 0 THEN [used |-> {}, items |-> <<>>]
            ELSE GenerateStep(G[i-1], textNodes[i], namespace, doc)
    IN  G[Len(textNodes)].items

-----------------------------------------------------------------------------
(* The Key Assignment Engine on elements given by their ancestors' names, own
   name, text and stored key *)

\* a variant of buildHierarchyPath that leaves the element itself out
ElemPathAncestorsOnly(el) == el.ancestors

\* buildHierarchyPath: the names from below the page down to the element
ElemPath(el) == el.ancestors \o <<el.name>>

\* one iteration of the loop of generateKeys: acc = [used, keys]
KeyStep(acc, el, namespace) ==
    IF el.key # <<>>
    THEN [used |-> acc.used \cup {UsedOfExisting(el.key)},
          keys |-> Append(acc.keys, el.key)]
    ELSE LET c == CandidateOf(ElemPath(el), el)
             finalKey == FirstUnused(c, acc.used, 1, c)
         IN  [used |-> acc.used \cup {finalKey},
              keys |-> Append(acc.keys, namespace \o <<".">> \o finalKey)]

\* generateKeys: the used set and the keys when the loop ends
generateKeysRun(elems, namespace) ==
    LET G[i \in 0..Len(elems)] ==
            IF i = 0 THEN [used |-> {}, keys |-> <<>>]
            ELSE KeyStep(G[i-1], elems[i], namespace)
    IN  G[Len(elems)]

\* generateKeys: the key of every item, in traversal order
generateKeysOf(elems, namespace) == generateKeysRun(elems, namespace).keys

-----------------------------------------------------------------------------
(* Selection State Store *)

\* a variant that returns the persisted map as it is
getSelectionMapUnpurged(st) == [map |-> st, mutated |-> FALSE]

\* getSelectionMap: the compacted map, and whether it was written back
getSelectionMap(st) ==
    LET kept == {k \in DOMAIN st : st[k] = FALSE}
    IN  [map |-> [k \in kept |-> FALSE], mutated |-> kept # DOMAIN st]

\* a variant that reports every element as selected
WithSelectedDefault(items, selMap) ==
    [i \in 1..Len(items) |-> items[i] @@ [selected |-> TRUE]]

\* it.selected = selMap[it.nodeId] !== false
WithSelected(items, selMap) ==
    [i \in 1..Len(items) |->
        items[i] @@ [selected |-> ~(items[i].nodeId \in DOMAIN selMap
                                    /\ selMap[items[i].nodeId] = FALSE)]]

-----------------------------------------------------------------------------
(* Namespace Registry *)

\* a variant that looks at the whole page whatever is selected
collectAssignedNamespacesOfPage(sel, doc) ==
    LET textNodes == UNION {Range(collectTextNodes(<<n>>)) : n \in Range(PageChildren)}
        keyed == {n \in textNodes :
                    doc[n].key # <<>> /\ IndexOf(doc[n].key, ".") > -1}
    IN  SortStrings({SliceTo(doc[n].key, IndexOf(doc[n].key, ".")) : n \in keyed})

collectAssignedNamespaces(sel, doc) ==
    LET sourceNodes == IF sel # {} THEN sel ELSE Range(PageChildren)
        textNodes == UNION {Range(collectTextNodes(<<n>>)) : n \in sourceNodes}
        keyed == {n \in textNodes :
                    doc[n].key # <<>> /\ IndexOf(doc[n].key, ".") > -1}
    IN  SortStrings({SplitKey(doc[n].key).ns : n \in keyed})

-----------------------------------------------------------------------------
(* Requests handled one after another (figma.ui.onmessage, selectionchange) *)

langVars == <<pc, targets, fontReqs, pending, loaded, fontName>>
asyncVars == <<procs, version, inflight>>

Namespace(nsIn) == IF nsIn = <<>> THEN PLUGIN_DEFAULT_NS ELSE nsIn

\* figma.on('selectionchange'): the user selects S
SelectionChange(S) ==
    /\ pc = "idle"
    /\ S # selection
    /\ selection' = S
    /\ req' = [type |-> "selectionchange"]
    /\ posted' = <<[type |-> "selection-change",
                    selectionLength |-> Cardinality(S),
                    namespaces |-> collectAssignedNamespaces(S, nodes)]>>
    /\ writes' = 0
    /\ UNCHANGED <<nodes, store, langVars, asyncVars>>

\* a variant that loads the persisted selection map before it looks at the
\* selection
ScanSelectionLoadsFirst(nsIn, order) ==
    /\ pc = "idle"
    /\ req' = [type |-> "scan-selection", namespace |-> nsIn]
    /\ LET textNodes == collectTextNodes(order)
           g == getSelectionMap(store)
       IN  /\ posted' =
                 IF selection = {}
                 THEN <<[type |-> "scan-result", items |-> <<>>,
                         warning |-> "No selection"]>>
                 ELSE IF textNodes = <<>>
                 THEN <<[type |-> "scan-result", items |-> <<>>,
                         warning |-> "No text nodes found"]>>
                 ELSE <<[type |-> "scan-result",
                         items |-> WithSelected(
                             generateKeys(textNodes, Namespace(nsIn), nodes), g.map),
                         warning |-> ""]>>
           /\ store' = g.map
           /\ writes' = IF g.mutated THEN 1 ELSE 0
    /\ UNCHANGED <<nodes, selection, langVars, asyncVars>>

\* case 'scan-selection'; order is the order of the host's selection array
ScanSelection(nsIn, order) ==
    /\ pc = "idle"
    /\ req' = [type |-> "scan-selection", namespace |-> nsIn]
    /\ LET textNodes == collectTextNodes(order)
           g == getSelectionMap(store)
       IN  IF selection = {}
           THEN /\ posted' = <<[type |-> "scan-result", items |-> <<>>,
                                warning |-> "No selection"]>>
                /\ writes' = 0
                /\ UNCHANGED store
           ELSE IF textNodes = <<>>
           THEN /\ posted' = <<[type |-> "scan-result", items |-> <<>>,
                                warning |-> "No text nodes found"]>>
                /\ writes' = 0
                /\ UNCHANGED store
           ELSE /\ posted' = <<[type |-> "scan-result",
                                items |-> WithSelected(
                                    generateKeys(textNodes, Namespace(nsIn), nodes),
                                    g.map),
                                warning |-> ""]>>
                /\ store' = g.map
                /\ writes' = IF g.mutated THEN 1 ELSE 0
    /\ UNCHANGED <<nodes, selection, langVars, asyncVars>>

\* a variant that stores the original name on every assignment
ApplyKeyItemOverwrite(doc, item, rej) ==
    IF item.nodeId \in TextIds
    THEN LET n == item.nodeId
             orig == IF item.originalName # <<>> THEN item.originalName
                     ELSE doc[n].name
         IN  [doc EXCEPT ![n].key = item.key,
                         ![n].orig = orig,
                         ![n].name = IF n \in rej THEN @ ELSE item.key]
    ELSE doc

\* a variant that reads the name to remember after the rename
ApplyKeyItemOrigAfterRename(doc, item, rej) ==
    IF item.nodeId \in TextIds
    THEN LET n == item.nodeId
             newName == IF n \in rej THEN doc[n].name ELSE item.key
         IN  [doc EXCEPT ![n].key = item.key,
                         ![n].orig = IF @ # <<>> THEN @ ELSE newName,
                         ![n].name = newName]
    ELSE doc

\* a variant that stores the key and leaves the display name alone
ApplyKeyItemKeepsName(doc, item, rej) ==
    IF item.nodeId \in TextIds
    THEN LET n == item.nodeId
             orig == IF doc[n].orig # <<>> THEN doc[n].orig
                     ELSE IF item.originalName # <<>> THEN item.originalName
                     ELSE doc[n].name
         IN  [doc EXCEPT ![n].key = item.key, ![n].orig = orig]
    ELSE doc

\* one iteration of the loop of 'apply-keys'; rej holds the nodes whose rename
\* the host rejects
ApplyKeyItem(doc, item, rej) ==
    IF item.nodeId \in TextIds
    THEN LET n == item.nodeId
             orig == IF doc[n].orig # <<>> THEN doc[n].orig
                     ELSE IF item.originalName # <<>> THEN item.originalName
                     ELSE doc[n].name
         IN  [doc EXCEPT ![n].key = item.key,
                         ![n].orig = orig,
                         ![n].name = IF n \in rej THEN @ ELSE item.key]
    ELSE doc

\* a variant that ends the batch at the first id that is no text node
RECURSIVE ApplyKeysLoopStops(_, _, _)
ApplyKeysLoopStops(doc, items, rej) ==
    IF items = <<>> \/ Head(items).nodeId \notin TextIds THEN doc
    ELSE ApplyKeysLoopStops(ApplyKeyItem(doc, Head(items), rej), Tail(items), rej)

RECURSIVE ApplyKeysLoop(_, _, _)
ApplyKeysLoop(doc, items, rej) ==
    IF items = <<>> THEN doc
    ELSE ApplyKeysLoop(ApplyKeyItem(doc, Head(items), rej), Tail(items), rej)

\* case 'apply-keys'
ApplyKeys(items, rej) ==
    /\ pc = "idle"
    /\ req' = [type |-> "apply-keys", items |-> items, rejected |-> rej]
    /\ nodes' = ApplyKeysLoop(nodes, items, rej)
    /\ posted' = <<[type |-> "namespaces-result",
                    namespaces |-> collectAssignedNamespaces(selection, nodes')],
                   [type |-> "notify", text |-> "Keys applied and names updated"]>>
    /\ writes' = 0
    /\ UNCHANGED <<selection, store, langVars, asyncVars>>

\* the items of 'assigned-result' in 'get-assigned' and 'restore-names'
AssignedItems(textNodes, doc, selMap) ==
    WithSelected(
        [i \in 1..Len(SelectSeq(textNodes, LAMBDA n : doc[n].key # <<>>)) |->
            LET n == SelectSeq(textNodes, LAMBDA m : doc[m].key # <<>>)[i]
            IN  ScanItem(n, doc, doc[n].key, TRUE)],
        selMap)

\* case 'get-assigned'
GetAssigned(nsIn, order) ==
    /\ pc = "idle"
    /\ req' = [type |-> "get-assigned", namespace |-> nsIn]
    /\ LET g == getSelectionMap(store)
           textNodes == collectTextNodes(SourceNodes(selection, order))
           all == AssignedItems(textNodes, nodes, g.map)
       IN  /\ posted' = <<[type |-> "assigned-result",
                           items |-> SelectSeq(all, LAMBDA i :
                               nsIn = <<>> \/ StartsWith(i.key, nsIn \o <<".">>))],
                          [type |-> "namespaces-result",
                           namespaces |-> collectAssignedNamespaces(selection, nodes)]>>
           /\ store' = g.map
           /\ writes' = IF g.mutated THEN 1 ELSE 0
    /\ UNCHANGED <<nodes, selection, langVars, asyncVars>>

\* case 'get-namespaces'
GetNamespaces ==
    /\ pc = "idle"
    /\ req' = [type |-> "get-namespaces"]
    /\ posted' = <<[type |-> "namespaces-result",
                    namespaces |-> collectAssignedNamespaces(selection, nodes)]>>
    /\ writes' = 0
    /\ UNCHANGED <<nodes, selection, store, langVars, asyncVars>>

\* a variant that forgets the stored original name once it is restored
RestoreItemForgets(doc, id, rej) ==
    IF id \in TextIds /\ doc[id].orig # <<>> /\ id \notin rej
    THEN [doc EXCEPT ![id].name = doc[id].orig, ![id].orig = <<>>]
    ELSE doc

\* one iteration of the loop of 'restore-names'
RestoreItem(doc, id, rej) ==
    IF id \in TextIds /\ doc[id].orig # <<>> /\ id \notin rej
    THEN [doc EXCEPT ![id].name = doc[id].orig]
    ELSE doc

\* a variant that ends the batch at the first rename the host rejects
RECURSIVE RestoreLoopStopsOnReject(_, _, _)
RestoreLoopStopsOnReject(doc, ids, rej) ==
    IF ids = <<>> THEN doc
    ELSE IF Head(ids) \in TextIds /\ doc[Head(ids)].orig # <<>> /\ Head(ids) \in rej
    THEN doc
    ELSE RestoreLoopStopsOnReject(RestoreItem(doc, Head(ids), rej), Tail(ids), rej)

RECURSIVE RestoreLoop(_, _, _)
RestoreLoop(doc, ids, rej) ==
    IF ids = <<>> THEN doc
    ELSE RestoreLoop(RestoreItem(doc, Head(ids), rej), Tail(ids), rej)

\* case 'restore-names'
RestoreNames(ids, rej, order) ==
    /\ pc = "idle"
    /\ req' = [type |-> "restore-names",
               items |-> [i \in 1..Len(ids) |-> [nodeId |-> ids[i]]],
               rejected |-> rej]
    /\ nodes' = RestoreLoop(nodes, ids, rej)
    /\ LET g == getSelectionMap(store)
           textNodes == collectTextNodes(SourceNodes(selection, order))
       IN  /\ posted' = <<[type |-> "notify", text |-> "Names restored"],
                          [type |-> "assigned-result",
                           items |-> AssignedItems(textNodes, nodes', g.map)],
                          [type |-> "namespaces-result",
                           namespaces |-> collectAssignedNamespaces(selection, nodes')]>>
           /\ store' = g.map
           /\ writes' = IF g.mutated THEN 1 ELSE 0
    /\ UNCHANGED <<selection, langVars, asyncVars>>

-----------------------------------------------------------------------------
(* Translation Synchronization Engine *)

\* fontName[n] is the set of fonts the characters of n use: node.fontName is
\* that font if there is one, and figma.mixed if there are several
IsMixed(fs) == Cardinality(fs) > 1
TheFont(fs) == CHOOSE f \in fs : TRUE

\* the key ensureFonts deduplicates by: `${family}__${style}`
FontKey(f) == f.family \o <<"_", "_">> \o f.style

\* one iteration of the loop of ensureFonts: acc = [keys, promises]
EnsureFontsStep(acc, fs) ==
    IF IsMixed(fs) THEN acc
    ELSE IF FontKey(TheFont(fs)) \in acc.keys THEN acc
    ELSE [keys |-> acc.keys \cup {FontKey(TheFont(fs))},
          promises |-> Append(acc.promises, TheFont(fs))]

\* ensureFonts: the loadFontAsync calls it issues, in order
ensureFonts(ns, fonts) ==
    LET E[i \in 0..Len(ns)] ==
            IF i = 0 THEN [keys |-> {}, promises |-> <<>>]
            ELSE EnsureFontsStep(E[i-1], fonts[ns[i]])
    IN  E[Len(ns)].promises

\* allNodes.filter(n => n.getPluginData(PLUGIN_KEY_KEY))
TargetNodes(sel, order, doc) ==
    SelectSeq(collectTextNodes(SourceNodes(sel, order)),
              LAMBDA n : doc[n].key # <<>>)

\* the lookup of applyTranslations: the full key, then the key without the
\* namespace prefix
Lookup(map, namespace, fullKey) ==
    IF fullKey \in DOMAIN map THEN [hit |-> TRUE, value |-> map[fullKey]]
    ELSE IF namespace # <<>> /\ StartsWith(fullKey, namespace \o <<".">>)
              /\ ReplaceFirst(fullKey, namespace \o <<".">>) \in DOMAIN map
    THEN [hit |-> TRUE, value |-> map[ReplaceFirst(fullKey, namespace \o <<".">>)]]
    ELSE [hit |-> FALSE, value |-> <<>>]

\* a mutation loop that gives up at the first element without a translation
TranslateStepStopsOnMiss(acc, n, map, namespace, fonts, ld) ==
    LET l == Lookup(map, namespace, acc.doc[n].key)
    IN  IF acc.threw \/ acc.doc[n].key = <<>> THEN acc
        ELSE IF ~l.hit THEN [acc EXCEPT !.threw = TRUE]
        ELSE IF fonts[n] \subseteq ld
        THEN [acc EXCEPT !.doc[n].characters = l.value]
        ELSE [acc EXCEPT !.threw = TRUE]

\* one iteration of the mutation loop of applyTranslations: acc = [doc, threw].
\* The host throws on an assignment to characters while a font of the node is
\* not loaded, which ends the loop and the handler.
TranslateStep(acc, n, map, namespace, fonts, ld) ==
    LET l == Lookup(map, namespace, acc.doc[n].key)
    IN  IF acc.threw \/ acc.doc[n].key = <<>> \/ ~l.hit THEN acc
        ELSE IF fonts[n] \subseteq ld
        THEN [acc EXCEPT !.doc[n].characters = l.value]
        ELSE [acc EXCEPT !.threw = TRUE]

TranslateLoop(doc, ns, map, namespace, fonts, ld) ==
    LET T[i \in 0..Len(ns)] ==
            IF i = 0 THEN [doc |-> doc, threw |-> FALSE]
            ELSE TranslateStep(T[i-1], ns[i], map, namespace, fonts, ld)
    IN  T[Len(ns)]

LanguageApplied(threw) ==
    IF threw THEN <<>> ELSE <<[type |-> "notify", text |-> "Language applied"]>>

\* case 'apply-language', handled without another request in between: every
\* font load is completed by the host before the loop runs
ApplyLanguage(map, namespace, order) ==
    /\ pc = "idle"
    /\ req' = [type |-> "apply-language", map |-> map, namespace |-> namespace]
    /\ LET t == TargetNodes(selection, order, nodes)
           ld == loaded \cup Range(ensureFonts(t, fontName))
           r == TranslateLoop(nodes, t, map, namespace, fontName, ld)
       IN  /\ nodes' = r.doc
           /\ loaded' = ld
           /\ posted' = LanguageApplied(r.threw)
    /\ writes' = 0
    /\ UNCHANGED <<selection, store, pc, targets, fontReqs, pending, fontName,
                   asyncVars>>

\* case 'apply-language' up to its first await: applyTranslations collects the
\* targets and ensureFonts issues the font loads
LangStart(map, namespace, order) ==
    /\ pc = "idle"
    /\ req' = [type |-> "apply-language", map |-> map, namespace |-> namespace]
    /\ targets' = TargetNodes(selection, order, nodes)
    /\ fontReqs' = ensureFonts(targets', fontName)
    /\ pending' = Range(fontReqs')
    /\ pc' = "fonts"
    /\ posted' = <<>>
    /\ writes' = 0
    /\ UNCHANGED <<nodes, selection, store, loaded, fontName, asyncVars>>

\* the host completes one font load
FontLoaded(f) ==
    /\ pc = "fonts"
    /\ f \in pending
    /\ pending' = pending \ {f}
    /\ loaded' = loaded \cup {f}
    /\ UNCHANGED <<nodes, selection, store, req, posted, writes, pc, targets,
                   fontReqs, fontName, asyncVars>>

\* Promise.all has resolved: the mutation loop and the notification
LangMutate ==
    /\ pc = "fonts"
    /\ pending = {}
    /\ LET r == TranslateLoop(nodes, targets, req.map, req.namespace,
                              fontName, loaded)
       IN  /\ nodes' = r.doc
           /\ posted' = LanguageApplied(r.threw)
    /\ pc' = "idle"
    /\ UNCHANGED <<selection, store, req, writes, targets, fontReqs, pending,
                   loaded, fontName, asyncVars>>

-----------------------------------------------------------------------------
(* The requests of the sequential specification *)

ScanNamespaces == {<<>>}
ItemIds == TextIds \cup {"f1", "x9"}    \* x9 resolves to no node
sUiGreeting == sUi \o <<".">> \o sGreeting
EditedKeys == {sUiGreeting}
SeqMaps == {(sGreeting :> sHallo)}
EditedOrigs == {<<>>, sOld}
EditedItems ==
    {[nodeId |-> n, key |-> k, originalName |-> o] :
        n \in ItemIds, k \in EditedKeys, o \in EditedOrigs}

\* the renames the host rejects during one handler: none, or those of t1
RejectSets == {{}, {"t1"}}

\* the node ids an apply-keys or restore-names request names
NodeIdsOf(items) == {items[i].nodeId : i \in 1..Len(items)}

\* those of them that concern a request naming the nodes ids
Rejectable(ids) == {r \in RejectSets : r \subseteq ids}

\* an apply-keys request edited by hand names one item; a restore-names
\* request names no id or one
EditedRequests == {<<it>> : it \in EditedItems}
RestoreRequests == {<<>>} \cup {<<id>> : id \in ItemIds}

\* the items of the scan result the UI holds, if the last handler was a scan
ScannedItems ==
    IF posted # <<>> /\ posted[1].type = "scan-result" THEN posted[1].items
    ELSE <<>>

FontRegular == [family |-> <<"I","n","t","e","r">>, style |-> <<"R","e","g">>]
FontBold == [family |-> <<"I","n","t","e","r">>, style |-> <<"B","o","l","d">>]

Init ==
    /\ nodes = [n \in TextIds |->
                  [name |-> InitialName(n), characters |-> InitialText(n),
                   key |-> <<>>, orig |-> <<>>]]
    /\ selection = {}
    /\ store = <<>>
    /\ req = [type |-> "none"]
    /\ posted = <<>>
    /\ writes = 0
    /\ pc = "idle"
    /\ targets = <<>>
    /\ fontReqs = <<>>
    /\ pending = {}
    /\ loaded = {}
    /\ fontName = [n \in TextIds |-> {FontRegular}]
    /\ procs = <<>>
    /\ version = 0
    /\ inflight = {}

\* the UI sends back the items of the scan result it has just received
ApplyScanned ==
    /\ ScannedItems # <<>>
    /\ \E rej \in RejectSets : ApplyKeys(ScannedItems, rej)

Next ==
    \/ \E S \in Selections : SelectionChange(S)
    \/ \E nsIn \in ScanNamespaces, order \in Orderings(selection) :
          ScanSelection(nsIn, order)
    \/ ApplyScanned
    \/ \E items \in EditedRequests :
          \E rej \in Rejectable({items[i].nodeId : i \in 1..Len(items)}) :
             ApplyKeys(items, rej)
    \/ \E ids \in RestoreRequests, order \in Orderings(selection) :
          \E rej \in Rejectable(Range(ids)) : RestoreNames(ids, rej, order)
    \/ \E m \in SeqMaps, ns \in {<<>>, sUi}, order \in Orderings(selection) :
          ApplyLanguage(m, ns, order)

Spec == Init /\ [][Next]_vars

\* scan requests, each followed or not by apply-keys of the items it returned
NextScanApply ==
    \/ \E S \in Selections : SelectionChange(S)
    \/ \E nsIn \in ScanNamespaces \cup {sUi}, order \in Orderings(selection) :
          ScanSelection(nsIn, order)
    \/ ApplyScanned

SpecScanApply == Init /\ [][NextScanApply]_vars

\* scan, apply-keys of the scanned items, then any apply-keys edited by hand
\* on elements that have been given a key that way, and restore-names
NextRoundTrip ==
    \/ \E S \in Selections : SelectionChange(S)
    \/ \E nsIn \in ScanNamespaces, order \in Orderings(selection) :
          ScanSelection(nsIn, order)
    \/ ApplyScanned
    \/ \E items \in EditedRequests :
          \E rej \in Rejectable({items[i].nodeId : i \in 1..Len(items)}) :
             /\ \A i \in 1..Len(items) :
                   items[i].nodeId \in TextIds /\ nodes[items[i].nodeId].orig # <<>>
             /\ ApplyKeys(items, rej)
    \/ \E ids \in RestoreRequests, order \in Orderings(selection) :
          \E rej \in Rejectable(Range(ids)) : RestoreNames(ids, rej, order)

SpecRoundTrip == Init /\ [][NextRoundTrip]_vars

-----------------------------------------------------------------------------
(* apply-keys and restore-names with batches of several items, some of which
   name a node that is gone (x9) or is no text node (f1) *)

MaxBatch == 2    \* items of one request

BatchItems ==
    {[nodeId |-> n, key |-> IF n = "t2" THEN sGreeting ELSE sUiGreeting,
      originalName |-> IF n = "t2" THEN sOld ELSE <<>>] : n \in ItemIds}
BatchRequests == UNION {[1..k -> BatchItems] : k \in 0..MaxBatch}
BatchRestores == UNION {[1..k -> ItemIds] : k \in 0..MaxBatch}

NextBatch ==
    \/ \E items \in BatchRequests :
          \E rej \in Rejectable(NodeIdsOf(items)) : ApplyKeys(items, rej)
    \/ \E ids \in BatchRestores :
          \E rej \in Rejectable(Range(ids)) : RestoreNames(ids, rej, <<>>)

SpecBatch == Init /\ [][NextBatch]_vars

-----------------------------------------------------------------------------
(* generateKeys and slugify applied to inputs of their own *)

sPage == <<"P","a","g","e">>
sApp == <<"A","p","p">>
sPageCardTitleTitle == <<"p","a","g","e","_","c","a","r","d","_","t","i","t","l","e",
                         "_","t","i","t","l","e">>

Elem(ancestors, key) ==
    [ancestors |-> ancestors, name |-> sTitle, characters |-> sHi, key |-> key]

MaxElems == 3    \* elements of one generateKeys call

KeyElems ==
    {Elem(<<sPage, sCard>>, <<>>),
     Elem(<<sApp, sPage, sCard>>, <<>>),
     Elem(<<sCard>>, <<>>),
     Elem(<<sPage, sCard>>,
          PLUGIN_DEFAULT_NS \o <<".">> \o sPageCardTitleTitle \o <<"_", "2">>)}
KeyBatches == UNION {[1..k -> KeyElems] : k \in 0..MaxElems}

MaxLen == 3    \* length of a string given to slugify

SlugAlphabet == {"a", "B", "7", " ", "-", "_", "!", "E'"}
SlugInputs == UNION {[1..k -> SlugAlphabet] : k \in 0..MaxLen}

InitPure(r) ==
    /\ nodes = [n \in TextIds |->
                  [name |-> InitialName(n), characters |-> InitialText(n),
                   key |-> <<>>, orig |-> <<>>]]
    /\ selection = {}
    /\ store = <<>>
    /\ req = r
    /\ posted = <<>>
    /\ writes = 0
    /\ pc = "idle"
    /\ targets = <<>>
    /\ fontReqs = <<>>
    /\ pending = {}
    /\ loaded = {}
    /\ fontName = [n \in TextIds |-> {FontRegular}]
    /\ procs = <<>>
    /\ version = 0
    /\ inflight = {}

InitKeys ==
    \E b \in KeyBatches :
        InitPure([type |-> "generateKeys", elems |-> b,
                  namespace |-> PLUGIN_DEFAULT_NS])

\* generateKeys(textNodes, namespace)
GenerateKeysCall ==
    /\ req.type = "generateKeys"
    /\ posted = <<>>
    /\ posted' = <<[type |-> "keys",
                    keys |-> generateKeysOf(req.elems, req.namespace),
                    used |-> generateKeysRun(req.elems, req.namespace).used]>>
    /\ UNCHANGED <<nodes, selection, store, req, writes, langVars, asyncVars>>

SpecKeys == InitKeys /\ [][GenerateKeysCall]_vars

\* elements without a stored key, and with stored keys that have no dot, one
\* dot and two dots and end with the candidate of the keyless element
StoredKeyElems ==
    {Elem(<<sPage, sCard>>, <<>>),
     Elem(<<sPage, sCard>>, sPageCardTitleTitle),
     Elem(<<sPage, sCard>>, PLUGIN_DEFAULT_NS \o <<".">> \o sPageCardTitleTitle),
     Elem(<<sPage, sCard>>,
          sUi \o <<".">> \o PLUGIN_DEFAULT_NS \o <<".">> \o sPageCardTitleTitle)}
StoredKeyBatches == UNION {[1..k -> StoredKeyElems] : k \in 0..MaxElems}

InitUsed ==
    \E b \in StoredKeyBatches :
        InitPure([type |-> "generateKeys", elems |-> b,
                  namespace |-> PLUGIN_DEFAULT_NS])

SpecUsed == InitUsed /\ [][GenerateKeysCall]_vars

InitSlug == \E str \in SlugInputs : InitPure([type |-> "slugify", str |-> str])

\* slugify(str), and generateKeys on one top-level element named str
SlugifyCall ==
    /\ req.type = "slugify"
    /\ posted = <<>>
    /\ posted' = <<[type |-> "slug",
                    slug |-> slugify(req.str),
                    localKey |-> SplitKey(generateKeysOf(
                        <<[ancestors |-> <<>>, name |-> req.str,
                           characters |-> req.str, key |-> <<>>]>>,
                        PLUGIN_DEFAULT_NS)[1]).local]>>
    /\ UNCHANGED <<nodes, selection, store, req, writes, langVars, asyncVars>>

SpecSlug == InitSlug /\ [][SlugifyCall]_vars

-----------------------------------------------------------------------------
(* Selection requests handled one after another *)

MapSet(m, k, v) == [x \in DOMAIN m \cup {k} |-> IF x = k THEN v ELSE m[x]]
MapDelete(m, k) == [x \in DOMAIN m \ {k} |-> m[x]]

\* setSelection: the map it writes
setSelection(map, nodeId, selected) ==
    IF selected = FALSE THEN MapSet(map, nodeId, FALSE)
    ELSE IF nodeId \in DOMAIN map THEN MapDelete(map, nodeId) ELSE map

\* one iteration of the loop of setSelectionBulk: acc = [map, mutated]
BulkStep(acc, it) ==
    IF it.selected = FALSE
    THEN (IF ~(it.nodeId \in DOMAIN acc.map /\ acc.map[it.nodeId] = FALSE)
          THEN [map |-> MapSet(acc.map, it.nodeId, FALSE), mutated |-> TRUE]
          ELSE acc)
    ELSE (IF it.nodeId \in DOMAIN acc.map
          THEN [map |-> MapDelete(acc.map, it.nodeId), mutated |-> TRUE]
          ELSE acc)

\* the loop of setSelectionBulk over the compacted map
RECURSIVE BulkLoop(_, _)
BulkLoop(acc, list) ==
    IF list = <<>> THEN acc ELSE BulkLoop(BulkStep(acc, Head(list)), Tail(list))

\* case 'set-selected'
SetSelected(nodeId, selected) ==
    /\ req' = [type |-> "set-selected", nodeId |-> nodeId, selected |-> selected]
    /\ LET g == getSelectionMap(store)
       IN  /\ store' = setSelection(g.map, nodeId, selected)
           /\ writes' = (IF g.mutated THEN 1 ELSE 0) + 1
    /\ posted' = <<>>
    /\ UNCHANGED <<nodes, selection, langVars, asyncVars>>

\* a variant that loads the map for an empty list too
SetSelectedBulkAlwaysLoads(list) ==
    /\ req' = [type |-> "set-selected-bulk", list |-> list]
    /\ LET g == getSelectionMap(store)
           r == BulkLoop([map |-> g.map, mutated |-> FALSE], list)
       IN  /\ store' = r.map
           /\ writes' = (IF g.mutated THEN 1 ELSE 0)
                        + (IF r.mutated THEN 1 ELSE 0)
    /\ posted' = <<>>
    /\ UNCHANGED <<nodes, selection, langVars, asyncVars>>

\* case 'set-selected-bulk'
SetSelectedBulk(list) ==
    /\ req' = [type |-> "set-selected-bulk", list |-> list]
    /\ IF list = <<>>
       THEN /\ writes' = 0
            /\ UNCHANGED store
       ELSE LET g == getSelectionMap(store)
                r == BulkLoop([map |-> g.map, mutated |-> FALSE], list)
            IN  /\ store' = r.map
                /\ writes' = (IF g.mutated THEN 1 ELSE 0)
                             + (IF r.mutated THEN 1 ELSE 0)
    /\ posted' = <<>>
    /\ UNCHANGED <<nodes, selection, langVars, asyncVars>>

MaxBulk == 2    \* longest list of a set-selected-bulk request

SelIds == TextIds \cup {"x9"}
BulkEntries == [nodeId : SelIds, selected : BOOLEAN]
BulkLists == UNION {[1..k -> BulkEntries] : k \in 0..MaxBulk}

\* every value the persisted map can hold when the plug-in starts, entries
\* with the value true left by earlier versions included
StoredMaps == UNION {[S -> BOOLEAN] : S \in SUBSET SelIds}

InitSel ==
    /\ nodes = [n \in TextIds |->
                  [name |-> InitialName(n), characters |-> InitialText(n),
                   key |-> <<>>, orig |-> <<>>]]
    /\ selection = {}
    /\ store \in StoredMaps
    /\ req = [type |-> "none"]
    /\ posted = <<>>
    /\ writes = 0
    /\ pc = "idle"
    /\ targets = <<>>
    /\ fontReqs = <<>>
    /\ pending = {}
    /\ loaded = {}
    /\ fontName = [n \in TextIds |-> {FontRegular}]
    /\ procs = <<>>
    /\ version = 0
    /\ inflight = {}

NextSel ==
    \/ \E id \in SelIds, selected \in BOOLEAN : SetSelected(id, selected)
    \/ \E list \in BulkLists : SetSelectedBulk(list)

SpecSel == InitSel /\ [][NextSel]_vars

Compacted(st) == \A k \in DOMAIN st : st[k] = FALSE

-----------------------------------------------------------------------------
(* Selection requests among scans, apply-keys, get-assigned and restore-names,
   handled one after another; the persisted map is empty or holds an entry
   left by an earlier version *)

FlagBulkLists ==
    {<<>>,
     <<[nodeId |-> "t2", selected |-> FALSE]>>,
     <<[nodeId |-> "t1", selected |-> FALSE], [nodeId |-> "t1", selected |-> TRUE]>>,
     <<[nodeId |-> "t1", selected |-> TRUE], [nodeId |-> "t1", selected |-> FALSE]>>,
     <<[nodeId |-> "t1", selected |-> FALSE], [nodeId |-> "t2", selected |-> FALSE]>>}

InitFlags ==
    /\ nodes = [n \in TextIds |->
                  [name |-> InitialName(n), characters |-> InitialText(n),
                   key |-> <<>>, orig |-> <<>>]]
    /\ selection = {}
    /\ store \in {<<>>, ("t1" :> TRUE)}
    /\ req = [type |-> "none"]
    /\ posted = <<>>
    /\ writes = 0
    /\ pc = "idle"
    /\ targets = <<>>
    /\ fontReqs = <<>>
    /\ pending = {}
    /\ loaded = {}
    /\ fontName = [n \in TextIds |-> {FontRegular}]
    /\ procs = <<>>
    /\ version = 0
    /\ inflight = {}

NextFlags ==
    \/ \E S \in Selections : SelectionChange(S)
    \/ \E nsIn \in ScanNamespaces, order \in Orderings(selection) :
          ScanSelection(nsIn, order)
    \/ ApplyScanned
    \/ \E id \in SelIds, selected \in BOOLEAN : SetSelected(id, selected)
    \/ \E list \in FlagBulkLists : SetSelectedBulk(list)
    \/ \E nsIn \in {<<>>, PLUGIN_DEFAULT_NS}, order \in Orderings(selection) :
          GetAssigned(nsIn, order)
    \/ \E order \in Orderings(selection) : RestoreNames(<<>>, {}, order)

SpecFlags == InitFlags /\ [][NextFlags]_vars

\* C5 as stated: after any sequence of set-one and set-bulk calls, from any
\* persisted map, every entry of the persisted map has the value false.
C5_NoTrueAfterAnyCall ==
    req.type \in {"set-selected", "set-selected-bulk"} => Compacted(store)

\* C5 as amended: a set-one call, and a set-bulk call with a non-empty list,
\* leave no entry with the value true, and no call brings one back; a
\* set-bulk call with an empty list leaves the map as it is.
C5_CompactedByEffectiveCall ==
    [][( \/ Compacted(store)
         \/ req'.type = "set-selected"
         \/ (req'.type = "set-selected-bulk" /\ req'.list # <<>>) )
       => Compacted(store')]_vars

\* a set-bulk call with a non-empty list has purged a stale entry (first
\* write) and stored a change of its own (second write)
C5_Witness ==
    /\ req.type = "set-selected-bulk"
    /\ req.list # <<>>
    /\ writes = 2
    /\ Compacted(store)

-----------------------------------------------------------------------------
(* Selection requests delivered while earlier handlers are suspended.

   figma.ui.onmessage is an async function: the host calls it for every
   message, also while an earlier call is suspended at an await.  A handler
   runs without interruption from one await of a clientStorage promise to the
   next.  getAsync yields the persisted value when it completes, setAsync
   stores its argument when it completes.  procs[h] is the handler of the
   h-th message: its position pc, its local map, and ver, the number of
   completed writes its map is based on. *)

MaxProcs == 2    \* number of messages delivered

AsyncIds == TextIds
AsyncBulkLists ==
    {<<>>,
     <<[nodeId |-> "t1", selected |-> FALSE]>>,
     <<[nodeId |-> "t2", selected |-> FALSE], [nodeId |-> "t1", selected |-> TRUE]>>}
AsyncMessages ==
    {[type |-> "set-selected", nodeId |-> id, selected |-> b] :
        id \in AsyncIds, b \in BOOLEAN}
    \cup {[type |-> "set-selected-bulk", list |-> l] : l \in AsyncBulkLists}
    \cup {[type |-> t] : t \in {"scan-selection", "get-assigned", "restore-names"}}

\* what a handler does with the map getSelectionMap returned, up to its next
\* await: the final setAsync it issues, or nothing
AfterGetSelectionMap(msg, map) ==
    IF msg.type = "set-selected"
    THEN [pc |-> "set", map |-> setSelection(map, msg.nodeId, msg.selected)]
    ELSE IF msg.type = "set-selected-bulk"
    THEN LET r == BulkLoop([map |-> map, mutated |-> FALSE], msg.list)
         IN  [pc |-> IF r.mutated THEN "set" ELSE "done", map |-> r.map]
    ELSE [pc |-> "done", map |-> map]

\* the host delivers a message: the handler runs up to its first await, the
\* getAsync of getSelectionMap
Deliver(msg) ==
    /\ Len(procs) < MaxProcs
    /\ req' = msg
    /\ procs' = Append(procs,
          [msg |-> msg,
           pc |-> IF msg.type = "set-selected-bulk" /\ msg.list = <<>>
                  THEN "done" ELSE "get",
           map |-> <<>>, ver |-> 0, stale |-> FALSE])
    /\ UNCHANGED <<nodes, selection, store, posted, writes, langVars, version,
                   inflight>>

\* getAsync completes: getSelectionMap compacts the value and writes it back
\* if it changed; otherwise the handler goes on
GetDone(h) ==
    /\ procs[h].pc = "get"
    /\ LET g == getSelectionMap(store)
           n == AfterGetSelectionMap(procs[h].msg, g.map)
       IN  IF g.mutated
           THEN /\ procs' = [procs EXCEPT ![h].pc = "purge", ![h].map = g.map,
                                          ![h].ver = version]
                /\ inflight' = inflight \cup {h}
           ELSE /\ procs' = [procs EXCEPT ![h].pc = n.pc, ![h].map = n.map,
                                          ![h].ver = version]
                /\ inflight' = IF n.pc = "set" THEN inflight \cup {h} ELSE inflight
    /\ UNCHANGED <<nodes, selection, store, req, posted, writes, langVars, version>>

\* the setAsync of getSelectionMap completes; the handler goes on and may
\* issue its final setAsync
PurgeDone(h) ==
    /\ procs[h].pc = "purge"
    /\ store' = procs[h].map
    /\ version' = version + 1
    /\ LET n == AfterGetSelectionMap(procs[h].msg, procs[h].map)
       IN  /\ procs' = [procs EXCEPT
                 ![h].pc = n.pc, ![h].map = n.map,
                 ![h].ver = IF procs[h].ver = version THEN version + 1 ELSE @,
                 ![h].stale = (n.pc = "set" /\ procs[h].ver # version)]
           /\ inflight' = IF n.pc = "set" THEN inflight ELSE inflight \ {h}
    /\ UNCHANGED <<nodes, selection, req, posted, writes, langVars>>

\* the final setAsync of setSelection or setSelectionBulk completes
SetDone(h) ==
    /\ procs[h].pc = "set"
    /\ store' = procs[h].map
    /\ version' = version + 1
    /\ procs' = [procs EXCEPT ![h].pc = "done"]
    /\ inflight' = inflight \ {h}
    /\ UNCHANGED <<nodes, selection, req, posted, writes, langVars>>

InitAsync ==
    /\ nodes = [n \in TextIds |->
                  [name |-> InitialName(n), characters |-> InitialText(n),
                   key |-> <<>>, orig |-> <<>>]]
    /\ selection = {}
    /\ store \in UNION {[S -> BOOLEAN] : S \in SUBSET AsyncIds}
    /\ req = [type |-> "none"]
    /\ posted = <<>>
    /\ writes = 0
    /\ pc = "idle"
    /\ targets = <<>>
    /\ fontReqs = <<>>
    /\ pending = {}
    /\ loaded = {}
    /\ fontName = [n \in TextIds |-> {FontRegular}]
    /\ procs = <<>>
    /\ version = 0
    /\ inflight = {}

NextAsync ==
    \/ \E msg \in AsyncMessages : Deliver(msg)
    \/ \E h \in 1..Len(procs) : GetDone(h)
    \/ \E h \in 1..Len(procs) : PurgeDone(h)
    \/ \E h \in 1..Len(procs) : SetDone(h)

SpecAsync == InitAsync /\ [][NextAsync]_vars

\* C6: with requests delivered while earlier handlers are suspended, there
\* are never two writes of the persisted selection map in flight at once, and
\* no handler issues a write of a map computed from a read that another
\* handler's write has superseded.
C6_SingleWriter ==
    /\ Cardinality(inflight) <= 1
    /\ \A h \in 1..Len(procs) : ~procs[h].stale

-----------------------------------------------------------------------------
(* apply-language with the font loads as steps of their own.

   The document holds text nodes with and without a stored key; a text node
   has one font, or several (fontName is figma.mixed).  No font is loaded
   when the plugin starts. *)

sCommon == <<"c","o","m","m","o","n">>
sCommonGreeting == sCommon \o <<".">> \o sGreeting

LangKeys == {<<>>, sGreeting, sCommonGreeting}
LangMaps ==
    {<<>>,
     (sGreeting :> sHallo),
     (sCommonGreeting :> sSalut) @@ (sGreeting :> sHallo)}
LangNamespaces == {<<>>, sCommon, sUi}
LangFonts ==
    {f \in [TextIds -> {{FontRegular}, {FontBold}, {FontRegular, FontBold}}] :
        ~IsMixed(f["t1"]) /\ f["t2"] # {FontBold}}

\* a node with a stored key is named after it and remembers its first name
KeyedNode(k) ==
    IF k = <<>>
    THEN [name |-> sTitle, characters |-> sHi, key |-> <<>>, orig |-> <<>>]
    ELSE [name |-> k, characters |-> sHi, key |-> k, orig |-> sTitle]

InitLang ==
    /\ \E ks \in [TextIds -> LangKeys] : nodes = [n \in TextIds |-> KeyedNode(ks[n])]
    /\ selection = {}
    /\ store = <<>>
    /\ req = [type |-> "none"]
    /\ posted = <<>>
    /\ writes = 0
    /\ pc = "idle"
    /\ targets = <<>>
    /\ fontReqs = <<>>
    /\ pending = {}
    /\ loaded = {}
    /\ fontName \in LangFonts
    /\ procs = <<>>
    /\ version = 0
    /\ inflight = {}

NextLang ==
    \/ \E S \in Selections : SelectionChange(S)
    \/ \E m \in LangMaps, ns \in LangNamespaces, order \in Orderings(selection) :
          LangStart(m, ns, order)
    \/ \E f \in pending : FontLoaded(f)
    \/ LangMutate

SpecLang == InitLang /\ [][NextLang]_vars

\* the step in which the mutation loop of applyTranslations runs
MutationStep == pc = "fonts" /\ pc' = "idle"

\* C7: for every element with a stored key, the value under the full stored
\* key becomes its text, also when the map holds the bare key; the value under
\* the bare key becomes its text when the full key is absent, the namespace is
\* non-empty and the stored key starts with namespace + ".".
C7_LookupOrder ==
    [][MutationStep =>
        \A i \in 1..Len(targets) :
           LET n == targets[i]
               k == nodes[n].key
               prefix == req.namespace \o <<".">>
               bare == SubSeq(k, Len(prefix) + 1, Len(k))
           IN  /\ k \in DOMAIN req.map => nodes'[n].characters = req.map[k]
               /\ ( /\ k \notin DOMAIN req.map
                    /\ req.namespace # <<>>
                    /\ StartsWith(k, prefix)
                    /\ bare \in DOMAIN req.map )
                  => nodes'[n].characters = req.map[bare]]_vars

\* whether a lookup succeeds for node n in the running apply-language
Found(n) == Lookup(req.map, req.namespace, nodes[n].key).hit

\* C8: apply-language changes only the text of working-set elements whose
\* lookup succeeds; an element whose lookup fails keeps its text and does not
\* keep any other element from being translated (an element is translated
\* unless an element with a successful lookup, up to itself, cannot be
\* written); no stored key, original name or display name changes.
C8_OnlyFoundTextChanges ==
    [][MutationStep =>
        /\ \A n \in TextIds :
              /\ nodes'[n].key = nodes[n].key
              /\ nodes'[n].orig = nodes[n].orig
              /\ nodes'[n].name = nodes[n].name
              /\ nodes'[n].characters # nodes[n].characters
                    => n \in Range(targets) /\ Found(n)
        /\ \A i \in 1..Len(targets) :
              ( /\ Found(targets[i])
                /\ \A j \in 1..i : Found(targets[j])
                                      => fontName[targets[j]] \subseteq loaded )
              => nodes'[targets[i]].characters
                    = Lookup(req.map, req.namespace, nodes[targets[i]].key).value]_vars

\* a run over <<t1, t2>> in which t1 has no translation and keeps its text and
\* t2 has received its translation
C8_Witness ==
    /\ pc = "idle" /\ req.type = "apply-language"
    /\ targets = <<"t1", "t2">>
    /\ nodes["t1"].key # <<>> /\ ~Found("t1") /\ nodes["t1"].characters = sHi
    /\ Found("t2") /\ nodes["t2"].characters = sHallo

\* C9: in every apply-language run, before any text changes, a load has been
\* requested and completed for every font of every keyed element of the
\* working set, with exactly one request per distinct font.
C9_FontsLoadedFirst ==
    [][(MutationStep /\ \E n \in TextIds : nodes'[n].characters # nodes[n].characters)
        => /\ \A i \in 1..Len(targets) :
                 fontName[targets[i]] \subseteq (Range(fontReqs) \cap loaded)
           /\ \A i, j \in 1..Len(fontReqs) : fontReqs[i] = fontReqs[j] => i = j]_vars

-----------------------------------------------------------------------------
(* apply-keys, apply-language and restore-names on a document without plugin
   data, whose text nodes carry a display name or the empty one (node.name is
   a string; generateKeys and apply-keys both test it for emptiness) *)

DisplayNames == {sTitle, <<>>}

InitNames ==
    /\ \E nm \in [TextIds -> DisplayNames] :
          nodes = [n \in TextIds |->
                     [name |-> nm[n], characters |-> InitialText(n),
                      key |-> <<>>, orig |-> <<>>]]
    /\ selection = {}
    /\ store = <<>>
    /\ req = [type |-> "none"]
    /\ posted = <<>>
    /\ writes = 0
    /\ pc = "idle"
    /\ targets = <<>>
    /\ fontReqs = <<>>
    /\ pending = {}
    /\ loaded = {}
    /\ fontName = [n \in TextIds |-> {FontRegular}]
    /\ procs = <<>>
    /\ version = 0
    /\ inflight = {}

NextNames ==
    \/ \E items \in EditedRequests :
          \E rej \in Rejectable({items[i].nodeId : i \in 1..Len(items)}) :
             ApplyKeys(items, rej)
    \/ \E ids \in RestoreRequests, order \in Orderings(selection) :
          \E rej \in Rejectable(Range(ids)) : RestoreNames(ids, rej, order)
    \/ \E m \in SeqMaps, ns \in {<<>>, sUi}, order \in Orderings(selection) :
          ApplyLanguage(m, ns, order)

SpecNames == InitNames /\ [][NextNames]_vars

-----------------------------------------------------------------------------
(* Requests that report items and namespaces, on documents whose text nodes
   carry stored keys with no dot, one dot, two dots or a leading dot *)

sUiCommonGreeting == sUi \o <<".">> \o sCommonGreeting
sDotGreeting == <<".">> \o sGreeting

StoredKeys == {<<>>, sGreeting, sCommonGreeting, sUiCommonGreeting, sDotGreeting}

InitItems ==
    /\ \E ks \in [TextIds -> StoredKeys] : nodes = [n \in TextIds |-> KeyedNode(ks[n])]
    /\ selection = {}
    /\ store = <<>>
    /\ req = [type |-> "none"]
    /\ posted = <<>>
    /\ writes = 0
    /\ pc = "idle"
    /\ targets = <<>>
    /\ fontReqs = <<>>
    /\ pending = {}
    /\ loaded = {}
    /\ fontName = [n \in TextIds |-> {FontRegular}]
    /\ procs = <<>>
    /\ version = 0
    /\ inflight = {}

NextItems ==
    \/ \E S \in Selections : SelectionChange(S)
    \/ \E nsIn \in ScanNamespaces, order \in Orderings(selection) :
          ScanSelection(nsIn, order)
    \/ \E items \in EditedRequests : ApplyKeys(items, {})
    \/ \E nsIn \in {<<>>, sUi}, order \in Orderings(selection) :
          GetAssigned(nsIn, order)
    \/ \E ids \in RestoreRequests, order \in Orderings(selection) :
          RestoreNames(ids, {}, order)
    \/ GetNamespaces

SpecItems == InitItems /\ [][NextItems]_vars

-----------------------------------------------------------------------------
(* Properties of the Key Assignment Engine and of the document handlers *)

IsScanResult == posted # <<>> /\ posted[1].type = "scan-result"

\* C1: the local fragments (localKey) of the items one scan returns are
\* pairwise distinct, in any traversal order and with any mix of elements
\* with and without a stored key.
C1_DistinctLocalKeys ==
    IsScanResult =>
        \A i, j \in 1..Len(posted[1].items) :
            i # j => posted[1].items[i].localKey # posted[1].items[j].localKey

\* C2: after any sequence of scans, each followed by apply-keys of the items
\* it returned, no two distinct text elements carry the same stored key.
C2_DocumentWideDistinct ==
    \A a, b \in TextIds :
        a # b /\ nodes[a].key # <<>> => nodes[a].key # nodes[b].key

\* C3: a scan returns, for every element with a non-empty stored key, exactly
\* that key with existing = true, whatever its name, text, ancestors or the
\* requested namespace, and the scan changes no element's stored key.
C3_ScanKeepsStoredKey ==
    [][req'.type = "scan-selection" =>
        /\ \A n \in TextIds : nodes'[n].key = nodes[n].key
        /\ posted'[1].type = "scan-result"
        /\ \A i \in 1..Len(posted'[1].items) :
              LET it == posted'[1].items[i]
              IN  nodes[it.nodeId].key # <<>> =>
                     it.key = nodes[it.nodeId].key /\ it.existing]_vars

\* a scan for the default namespace has returned the stored key of an element
\* whose key lies in another namespace and whose name is not its key
C3_Witness ==
    /\ req.type = "scan-selection"
    /\ IsScanResult
    /\ \E i \in 1..Len(posted[1].items) :
          LET it == posted[1].items[i]
          IN  /\ it.existing
              /\ it.key = sUiGreeting
              /\ Namespace(req.namespace) # it.namespace
              /\ it.name # it.key

\* C4: once an element's stored original name is non-empty it never changes
\* again, whatever scan, apply-keys, apply-language or restore-names request
\* follows, even when an apply-keys item carries another originalName.
C4_OrigSetOnce ==
    [][\A n \in TextIds :
          nodes[n].orig # <<>> => nodes'[n].orig = nodes[n].orig]_vars

\* an apply-keys request has just carried, for an element whose stored
\* original name was set, an item with another non-empty originalName
C4_Witness ==
    /\ req.type = "apply-keys"
    /\ \E i \in 1..Len(req.items) :
          LET it == req.items[i]
          IN  /\ it.nodeId \in TextIds
              /\ it.originalName # <<>>
              /\ nodes[it.nodeId].orig # <<>>
              /\ nodes[it.nodeId].orig # it.originalName
              /\ nodes[it.nodeId].key = it.key

\* C10: restore-names changes nothing but display names: every element keeps
\* its stored key, stored original name and text, and an element without a
\* stored original name keeps its display name too.
C10_RestoreFrame ==
    [][req'.type = "restore-names" =>
        \A n \in TextIds :
            /\ nodes'[n].key = nodes[n].key
            /\ nodes'[n].orig = nodes[n].orig
            /\ nodes'[n].characters = nodes[n].characters
            /\ (nodes[n].orig = <<>> => nodes'[n].name = nodes[n].name)]_vars

\* restore-names has set the name of a keyed element back to its stored
\* original name, which differs from its key
C10_Witness ==
    /\ req.type = "restore-names"
    /\ \E n \in TextIds :
          /\ req.items = <<[nodeId |-> n]>>
          /\ nodes[n].name = sOld
          /\ nodes[n].orig = sOld
          /\ nodes[n].key # <<>>

Resolvable(items) == SelectSeq(items, LAMBDA it : it.nodeId \in TextIds)

HasNotify(msgs, text) ==
    \E i \in 1..Len(msgs) : msgs[i] = [type |-> "notify", text |-> text]

\* C12: in apply-keys and restore-names an item whose id does not resolve to
\* a text element is skipped without error (the handler ends with its
\* notification), and the document ends as the items that do resolve, in
\* their order, would have left it without the unresolvable ones.
C12_UnresolvableSkipped ==
    [][/\ req'.type = "apply-keys" =>
            /\ nodes' = ApplyKeysLoop(nodes, Resolvable(req'.items), req'.rejected)
            /\ HasNotify(posted', "Keys applied and names updated")
       /\ req'.type = "restore-names" =>
            /\ nodes' = RestoreLoop(nodes,
                           [i \in 1..Len(Resolvable(req'.items)) |->
                               Resolvable(req'.items)[i].nodeId],
                           req'.rejected)
            /\ HasNotify(posted', "Names restored")]_vars

\* an apply-keys batch of an id that is gone followed by one for t1 has given
\* t1 its key
C12_Witness ==
    /\ req.type = "apply-keys"
    /\ Len(req.items) = 2
    /\ req.items[1].nodeId = "x9"
    /\ req.items[2].nodeId = "t1"
    /\ nodes["t1"].key = req.items[2].key
    /\ nodes["t1"].name = req.items[2].key
    /\ HasNotify(posted, "Keys applied and names updated")

TextNodesIn(S) == {t \in TextIds : t \in S \/ Ancestors(t) \cap S # {}}

C15_EmptySelectionScansPage ==
    (req.type = "scan-selection" /\ selection = {}) =>
        /\ IsScanResult
        /\ Len(posted[1].items) = Cardinality(TextIds)
        /\ NodeIdsOf(posted[1].items) = TextIds

\* an element counts as selected unless its id maps to false
IsSelected(st, id) == ~(id \in DOMAIN st /\ st[id] = FALSE)

\* the selected value of the last entry of list that names id
LastFor(list, id) ==
    LET last == CHOOSE i \in 1..Len(list) :
                    /\ list[i].nodeId = id
                    /\ \A j \in (i+1)..Len(list) : list[j].nodeId # id
    IN  list[last].selected

\* the persisted map st2 is st with the entries of list applied, the last
\* entry of an id deciding
HoldsEffectOf(st2, st, list) ==
    \A k \in SelIds :
        IF k \in NodeIdsOf(list)
        THEN IF LastFor(list, k) THEN k \notin DOMAIN st2
             ELSE k \in DOMAIN st2 /\ st2[k] = FALSE
        ELSE IsSelected(st2, k) = IsSelected(st, k)

\* C16: every set-bulk, from any persisted map, issues at most one write,
\* which holds the effect of all its entries; with an empty list it issues no
\* write and leaves the persisted map unchanged.
C16_AtMostOneWrite ==
    [][req'.type = "set-selected-bulk" =>
        /\ writes' <= 1
        /\ HoldsEffectOf(store', store, req'.list)
        /\ req'.list = <<>> => writes' = 0 /\ store' = store]_vars

\* C16, with the write of the load counted: a set-bulk issues at most one
\* write for its entries, after the one write by which the load purges a
\* persisted map that held an entry other than false.
C16_OneWriteAfterPurge ==
    [][req'.type = "set-selected-bulk" =>
        /\ writes' <= (IF Compacted(store) \/ req'.list = <<>> THEN 1 ELSE 2)
        /\ HoldsEffectOf(store', store, req'.list)
        /\ req'.list = <<>> => writes' = 0 /\ store' = store]_vars

\* a set-bulk with entries for two ids has issued one write and the persisted
\* map holds both
C16_Witness ==
    /\ req.type = "set-selected-bulk"
    /\ Len(req.list) = 2
    /\ req.list[1].nodeId # req.list[2].nodeId
    /\ ~req.list[1].selected /\ ~req.list[2].selected
    /\ writes = 1
    /\ NodeIdsOf(req.list) \subseteq DOMAIN store

\* the items of the scan-result or assigned-result among the messages posted
ReportedItems(msgs) ==
    LET at == {i \in 1..Len(msgs) : msgs[i].type \in {"scan-result", "assigned-result"}}
    IN  IF at = {} THEN <<>> ELSE msgs[CHOOSE i \in at : TRUE].items

SameFlags(st2, st) == \A k \in SelIds : IsSelected(st2, k) = IsSelected(st, k)

\* what a step does to the persisted flags and what it reports of them
FlagStep ==
    /\ req'.type = "set-selected" =>
          /\ IF req'.selected THEN req'.nodeId \notin DOMAIN store'
             ELSE req'.nodeId \in DOMAIN store' /\ store'[req'.nodeId] = FALSE
          /\ \A k \in SelIds \ {req'.nodeId} :
                IsSelected(store', k) = IsSelected(store, k)
    /\ req'.type = "set-selected-bulk" =>
          HoldsEffectOf(store', store, req'.list)
    /\ req'.type \in {"selectionchange", "apply-keys"} =>
          SameFlags(store', store)
    /\ req'.type \in {"scan-selection", "get-assigned", "restore-names"} =>
          /\ SameFlags(store', store)
          /\ \A i \in 1..Len(ReportedItems(posted')) :
                LET it == ReportedItems(posted')[i]
                IN  it.selected = IsSelected(store, it.nodeId)

\* C17: with requests handled one after another, every id counts as selected
\* at the start; set-one(id, false) makes the id map to false, set-one(id,
\* true) removes its entry, set-bulk does the same per entry, the last entry
\* of an id deciding; no other request changes what an id counts as; and the
\* selected flag that scan, get-assigned and restore-names report for an
\* element is what its id counts as.
C17_FlagFollowsLastCall ==
    /\ \A k \in SelIds : IsSelected(store, k)
    /\ [][FlagStep]_vars

\* get-assigned has reported t1 as not selected and t2 as selected
C17_Witness ==
    /\ req.type = "get-assigned"
    /\ \E i, j \in 1..Len(ReportedItems(posted)) :
          /\ ReportedItems(posted)[i].nodeId = "t1"
          /\ ~ReportedItems(posted)[i].selected
          /\ ReportedItems(posted)[j].nodeId = "t2"
          /\ ReportedItems(posted)[j].selected
    /\ store = ("t1" :> FALSE)

\* the result of the generateKeys call, once it has returned
KeysReturned == posted # <<>> /\ posted[1].type = "keys"

ThreeTitles == <<Elem(<<sPage, sCard>>, <<>>), Elem(<<sPage, sCard>>, <<>>),
                 Elem(<<sPage, sCard>>, <<>>)>>

IsGenerated(i) == req.elems[i].key = <<>>
CandidateAt(i) == CandidateOf(ElemPath(req.elems[i]), req.elems[i])
FragmentAt(i) == SplitKey(posted[1].keys[i]).local
UsedBefore(i) ==
    {IF IsGenerated(j) THEN FragmentAt(j) ELSE LastSegment(req.elems[j].key) :
        j \in 1..(i-1)}

\* c, c_2, c_3, ...
Suffixed(c, m) == IF m = 1 THEN c ELSE c \o <<"_">> \o NatToStr(m)

\* the m with FragmentAt(i) = Suffixed(candidate, m), 0 if there is none
SuffixAt(i) ==
    LET ms == {m \in 1..(Len(req.elems) + 2) :
                  FragmentAt(i) = Suffixed(CandidateAt(i), m)}
    IN  IF ms = {} THEN 0 ELSE CHOOSE m \in ms : TRUE

\* C19: in one scan every element without a stored key receives the first
\* fragment among c, c_2, c_3, ... of its candidate c not yet recorded as
\* used; the elements sharing a candidate receive distinct fragments with
\* increasing suffixes; and in a batch of N elements without stored keys that
\* all share the candidate c, the k-th receives c for k = 1 and c_k for
\* k = 2..N.
C19_SuffixesInOrder ==
    KeysReturned =>
        /\ \A i \in 1..Len(req.elems) :
              IsGenerated(i) =>
                 /\ SuffixAt(i) > 0
                 /\ FragmentAt(i) \notin UsedBefore(i)
                 /\ \A m \in 1..(SuffixAt(i) - 1) :
                       Suffixed(CandidateAt(i), m) \in UsedBefore(i)
        /\ \A i, j \in 1..Len(req.elems) :
              (i < j /\ IsGenerated(i) /\ IsGenerated(j)
                     /\ CandidateAt(i) = CandidateAt(j))
              => FragmentAt(i) # FragmentAt(j) /\ SuffixAt(i) < SuffixAt(j)
        /\ (\A i \in 1..Len(req.elems) :
                IsGenerated(i) /\ CandidateAt(i) = CandidateAt(1))
              => \A k \in 1..Len(req.elems) : SuffixAt(k) = k

\* three elements without stored keys at different depths, all with the
\* candidate page_card_title_title, have received it with the suffixes none,
\* _2 and _3
C19_Witness ==
    /\ KeysReturned
    /\ req.elems = <<Elem(<<sPage, sCard>>, <<>>), Elem(<<sApp, sPage, sCard>>, <<>>),
                     Elem(<<sPage, sCard>>, <<>>)>>
    /\ FragmentAt(1) = sPageCardTitleTitle
    /\ FragmentAt(2) = sPageCardTitleTitle \o <<"_", "2">>
    /\ FragmentAt(3) = sPageCardTitleTitle \o <<"_", "3">>

SlugReturned == posted # <<>> /\ posted[1].type = "slug"

\* no underscore at either end and no two underscores in a row
TidyUnderscores(t) ==
    /\ t # <<>> => t[1] # "_" /\ t[Len(t)] # "_"
    /\ \A i \in 1..(Len(t) - 1) : ~(t[i] = "_" /\ t[i+1] = "_")

\* C20: for every input slugify returns a token of characters of [a-z0-9_]
\* only, without an underscore at either end and without two underscores in a
\* row; with the fallback "text" the local fragment of a generated key is
\* never empty and holds characters of that class only.
C20_SlugClass ==
    SlugReturned =>
        LET class == AsciiLower \cup Range(DigitChars) \cup {"_"}
        IN  /\ Range(posted[1].slug) \subseteq class
            /\ TidyUnderscores(posted[1].slug)
            /\ posted[1].localKey # <<>>
            /\ Range(posted[1].localKey) \subseteq class

\* C20, with the hyphen, which the character class of slugify keeps: the
\* token and the local fragment hold characters of [a-z0-9_-] only.
C20_SlugClassWithHyphen ==
    SlugReturned =>
        LET class == AsciiLower \cup Range(DigitChars) \cup {"_", "-"}
        IN  /\ Range(posted[1].slug) \subseteq class
            /\ TidyUnderscores(posted[1].slug)
            /\ posted[1].localKey # <<>>
            /\ Range(posted[1].localKey) \subseteq class

\* slugify has turned an input of a blank, an accented capital and an
\* underscore into "e", and an input of punctuation only has given the
\* fragment "text"
C20_Witness ==
    /\ SlugReturned
    /\ \/ req.str = <<" ", "E'", "_">> /\ posted[1].slug = <<"e">>
       \/ req.str = <<"!", "!">> /\ posted[1].slug = <<>>
                                  /\ posted[1].localKey = FALLBACK_TOKEN

\* the positions of the dots of a key
Dots(k) == {i \in 1..Len(k) : k[i] = "."}
FirstDot(k) == CHOOSE d \in Dots(k) : \A e \in Dots(k) : d <= e

\* C21: every item returned by scan, get-assigned or restore-names has, for
\* a key with a dot, namespace the part of key before its first dot and
\* localKey the part after it, and for a key without a dot an empty
\* namespace and localKey = key; if namespace is not empty then
\* key = namespace + "." + localKey.
C21_ItemSplit ==
    \A i \in 1..Len(ReportedItems(posted)) :
        LET it == ReportedItems(posted)[i]
            k == it.key
        IN  /\ IF Dots(k) = {}
               THEN it.namespace = <<>> /\ it.localKey = k
               ELSE /\ it.namespace = SubSeq(k, 1, FirstDot(k) - 1)
                    /\ it.localKey = SubSeq(k, FirstDot(k) + 1, Len(k))
            /\ it.namespace # <<>> => k = it.namespace \o <<".">> \o it.localKey

\* get-assigned has returned an item for a key with two dots, split at the
\* first, and an item for a key without a dot
C21_Witness ==
    /\ req.type = "get-assigned"
    /\ \E i, j \in 1..Len(ReportedItems(posted)) :
          /\ ReportedItems(posted)[i].key = sUiCommonGreeting
          /\ ReportedItems(posted)[i].namespace = sUi
          /\ ReportedItems(posted)[i].localKey = sCommonGreeting
          /\ ReportedItems(posted)[j].key = sGreeting
          /\ ReportedItems(posted)[j].namespace = <<>>

\* the prefixes before the first dot of the stored keys of the working set
WorkingSetPrefixes(sel, doc) ==
    LET working == IF sel # {} THEN TextNodesIn(sel) ELSE TextIds
    IN  {SubSeq(doc[n].key, 1, FirstDot(doc[n].key) - 1) :
            n \in {m \in working : Dots(doc[m].key) # {}}}

\* the namespace lists among the messages posted
NamespaceLists(msgs) ==
    {msgs[i].namespaces :
        i \in {j \in 1..Len(msgs) :
                  msgs[j].type \in {"namespaces-result", "selection-change"}}}

\* C23: every namespace list posted (by get-namespaces, after apply-keys,
\* get-assigned and restore-names, and on selection change) is the
\* duplicate-free ascending sequence of the prefixes before the first dot of
\* the stored keys of the text elements of the working set as the handler
\* leaves it; keys without a dot contribute nothing; get-namespaces changes no
\* element and no persisted value.
C23_NamespaceList ==
    [][/\ \A q \in NamespaceLists(posted') :
            /\ Range(q) = WorkingSetPrefixes(selection', nodes')
            /\ \A i, j \in 1..Len(q) : i < j => StrLess(q[i], q[j])
       /\ req'.type \in {"get-namespaces", "apply-keys", "get-assigned",
                          "restore-names", "selectionchange"}
            => NamespaceLists(posted') # {}
       /\ req'.type = "get-namespaces" =>
            nodes' = nodes /\ store' = store /\ writes' = 0]_vars

\* get-namespaces, with t1 selected, has reported the namespace of t1 alone
\* while t2 carries a key of another namespace
C23_Witness ==
    /\ req.type = "get-namespaces"
    /\ selection = {"t1"}
    /\ nodes["t1"].key = sUiCommonGreeting
    /\ nodes["t2"].key = sCommonGreeting
    /\ posted[1].namespaces = <<sUi>>

\* the part of a key after its first dot, the whole key if it has no dot
LocalFragment(k) ==
    IF Dots(k) = {} THEN k ELSE SubSeq(k, FirstDot(k) + 1, Len(k))

\* C22: in one scan every element with a stored key registers the local
\* fragment of that key (what follows its first dot) in the used set, so no
\* key generated for a later element has the local fragment of a stored key
\* met earlier.
C22_StoredFragmentRegistered ==
    KeysReturned =>
        /\ \A i \in 1..Len(req.elems) :
              ~IsGenerated(i) => LocalFragment(req.elems[i].key) \in posted[1].used
        /\ \A i, j \in 1..Len(req.elems) :
              (i < j /\ ~IsGenerated(i) /\ IsGenerated(j)) =>
                 LocalFragment(posted[1].keys[j]) # LocalFragment(req.elems[i].key)

\* the persisted map holds what set-selected(id, selected) asks for
Reflects(st, msg) ==
    IF msg.selected
    THEN msg.nodeId \notin DOMAIN st
    ELSE msg.nodeId \in DOMAIN st /\ st[msg.nodeId] = FALSE

\* C24: when two set-selected requests for different ids, delivered in any
\* interleaving, have both completed, the persisted map reflects both.
C24_NoLostUpdate ==
    \A g, h \in 1..Len(procs) :
        (/\ procs[g].msg.type = "set-selected"
         /\ procs[h].msg.type = "set-selected"
         /\ procs[g].msg.nodeId # procs[h].msg.nodeId
         /\ \A k \in 1..Len(procs) : procs[k].pc = "done")
        => Reflects(store, procs[g].msg) /\ Reflects(store, procs[h].msg)

\* C25: in every state reached by apply-keys, apply-language and
\* restore-names from a document without plugin data, every text element with
\* a non-empty stored key has a non-empty stored original name.
C25_KeyedHasOriginal ==
    \A n \in TextIds : nodes[n].key # <<>> => nodes[n].orig # <<>>

\* apply-keys of the scanned items, unchanged, with every rename accepted;
\* then the next scan
ScanApplyStep ==
    (/\ req'.type = "apply-keys"
     /\ ScannedItems # <<>>
     /\ req'.items = ScannedItems
     /\ req'.rejected = {})
    => \A i \in 1..Len(ScannedItems) :
          LET it == ScannedItems[i]
          IN  /\ nodes'[it.nodeId].key = it.key
              /\ nodes'[it.nodeId].name = it.key
RescanStep ==
    (/\ req.type = "apply-keys"
     /\ req.rejected = {}
     /\ req'.type = "scan-selection")
    => /\ posted'[1].type = "scan-result"
       /\ Len(posted'[1].items) = Len(req.items)
       /\ \A i \in 1..Len(req.items) :
             \E j \in 1..Len(posted'[1].items) :
                /\ posted'[1].items[j].nodeId = req.items[i].nodeId
                /\ posted'[1].items[j].key = req.items[i].key
                /\ posted'[1].items[j].existing

\* C26: after a scan of a selection and apply-keys of the items it returned,
\* unchanged, every element present and every rename accepted, each element
\* has its item's key as stored key and as display name; and the scan that
\* follows immediately, of the same selection and with any namespace, returns
\* for every element the same key with existing = true.
C26_ScanApplyScan == [][ScanApplyStep /\ RescanStep]_vars

\* a scan for the namespace "ui" has returned, for both elements of the
\* frame, the keys of the default namespace they carry as stored key and as
\* display name
C26_Witness ==
    /\ req.type = "scan-selection"
    /\ req.namespace = sUi
    /\ IsScanResult
    /\ Len(posted[1].items) = 2
    /\ \A i \in 1..2 :
          LET it == posted[1].items[i]
          IN  /\ it.existing
              /\ it.namespace = PLUGIN_DEFAULT_NS
              /\ nodes[it.nodeId].key = it.key
              /\ nodes[it.nodeId].name = it.key

=============================================================================

